---- MODULE Spec2Model ----
(***************************************************************************)
(* The two ingestion scripts of the repository, data_fetch.py (rolling     *)
(* look-back) and data_fetch_v1.py (aligned 15-minute bucket), as one      *)
(* state machine.  The variable `variant` says which script runs.          *)
(*                                                                         *)
(* Spec      : main() run cycle after cycle, one step per statement group  *)
(* SpecStore : init_db / insert_data / update_readme called directly, in   *)
(*             any order, as a caller of the module may                    *)
(***************************************************************************)
EXTENDS Integers, Sequences, FiniteSets, Bags, TLC

\* ------------------------------------------------------------------ bounds
MaxRows == 2        \* rows in one provider result / one DataFrame
MaxCycles == 2      \* runs of main() explored

\* --------------------------------------------------------------- constants
\* The basket: the scripts list 20 symbols; three stand for them.
STOCKS == <<"A", "B", "C">>

Stocks == {STOCKS[k] : k \in 1..Len(STOCKS)}

Variants == {"data_fetch", "data_fetch_v1"}

\* What the name df can be bound to: None, or a DataFrame with its rows.
None == [isNone |-> TRUE, rows |-> <<>>]
DataFrame(rows) == [isNone |-> FALSE, rows |-> rows]

\* What a path can hold: no file, or a file with its text (a sequence of
\* chunks: the header, then one chunk per section).
NoFile == [exists |-> FALSE, text |-> <<>>]
File(text) == [exists |-> TRUE, text |-> text]

\* Names the import lines bind in the module namespace (the same in both
\* scripts).  "datetime" is the class: from datetime import datetime.
Imported == {"os", "sqlite3", "logging", "datetime", "pytz", "yf", "pd", "tabulate"}

\* Asia/Kolkata is UTC+05:30, with no daylight saving: 330 minutes.
IST == 330

\* LIMIT 2 of the snapshot query.
LIMIT == 2

\* The bucket of the aligned window, in minutes.
BUCKET == 15

\* Instants are minutes of one trading day.  Provider timestamps are UTC.
\* period="15m": the bar of 04:30 UTC = 10:00 IST.
Times15m == {270}
\* period="1d": 09:44, 09:45, 09:59, 10:00, 10:14 IST, in UTC.
Times1d == {254, 255, 269, 270, 284}

Opens == {10}
Closes == {11, 12}
Volumes == {5}

\* Wall-clock readings of datetime.now(IST): 10:07 and 10:15.
Clock == {607, 615}

VARIABLES
    variant,      \* which script this is
    pc,           \* where main() (or the caller, in SpecStore) stands
    cycle,        \* runs of main() started so far
    i,            \* index into STOCKS of the loop in progress
    downloaded,   \* the rows yf.download returned to the last fetch
    df,           \* what df is bound to: None, or a DataFrame
    again,        \* the last insert_data call repeated the one before it
    now,          \* the wall clock, minutes of the day in IST
    db,           \* the database: table name -> table
    readme,       \* README_FILE on disk: NoFile, or a sequence of chunks
    wbuf,         \* text written to f and not yet flushed to disk
    log,          \* data_fetch.log: the lines the last step appended
    outcome,      \* per stock, what this cycle's log says became of it
    readmeCalls,  \* update_readme calls main() made in this cycle
    published     \* the report README_FILE held when it was last closed

vars == <<variant, pc, cycle, i, downloaded, df, again, now, db,
          readme, wbuf, log, outcome, readmeCalls, published>>

N == Len(STOCKS)

\* ------------------------------------------------------------ text and time
\* A timestamp as the TEXT the datetime column holds: "HH:MM", zero padded
\* (the date and the +05:30 suffix are the same for every row of the day and
\* are left out).  Characters are their rank in ASCII order: digits 0..9,
\* then ":" (10).
ToText(t) ==
    <<(t \div 60) \div 10, (t \div 60) % 10, 10, (t % 60) \div 10, (t % 60) % 10>>

\* SQLite's BINARY collation on TEXT: byte-wise, a proper prefix sorts first.
TextLess(a, b) ==
    \/ /\ Len(a) < Len(b)
       /\ \A k \in 1..Len(a) : a[k] = b[k]
    \/ \E k \in 1..(IF Len(a) < Len(b) THEN Len(a) ELSE Len(b)) :
          /\ \A j \in 1..(k - 1) : a[j] = b[j]
          /\ a[k] < b[k]

\* Series.dt.tz_convert(IST): the same instant, read on the IST wall clock.
tz_convert(utc) == utc + IST

\* ------------------------------------------------------------ the provider
ProviderRows(times) ==
    [Datetime : times, Open : Opens, Close : Closes, Volume : Volumes]

\* What yf.download may return: no rows, or up to MaxRows rows indexed by
\* time, in ascending order, a timestamp possibly repeated.
ProviderResults(rows) ==
    {res \in UNION {[1..n -> rows] : n \in 0..MaxRows} :
        \A k \in 1..(Len(res) - 1) : res[k].Datetime <= res[k + 1].Datetime}

\* period="15m" in data_fetch.py, period="1d" in data_fetch_v1.py.
Download(v) ==
    IF v = "data_fetch" THEN ProviderResults(ProviderRows(Times15m))
    ELSE ProviderResults(ProviderRows(Times1d))

\* reset_index, tz_convert and rename of one provider row.
Normalize(r) ==
    [datetime |-> tz_convert(r.Datetime), open |-> r.Open,
     close |-> r.Close, volume |-> r.Volume]

\* The DataFrames a caller can hand to insert_data directly: rows of 09:59,
\* 10:00 and 10:01 IST, the 10:00 bar at either close.
FrameTimes == {269, 270, 271}

FrameRows ==
    {r \in ProviderRows(FrameTimes) :
        r.Datetime = 270 \/ \A c \in Closes : r.Close <= c}

Frames ==
    {[k \in 1..Len(res) |-> Normalize(res[k])] :
        res \in ProviderResults(FrameRows) \ {<<>>}}

\* ---------------------------------------------------------------- the store
\* CREATE TABLE ... (datetime TEXT PRIMARY KEY, ...): an empty table whose
\* datetime column is its primary key.  rows is a bag: a table without a key
\* could hold a row twice.
CreateTableNoKey == [pk |-> FALSE, rows |-> EmptyBag]

CreateTable == [pk |-> TRUE, rows |-> EmptyBag]

\* init_db: CREATE TABLE IF NOT EXISTS for every stock; existing tables and
\* their rows stay as they are.
init_db(d) ==
    [s \in DOMAIN d \cup Stocks |-> IF s \in DOMAIN d THEN d[s] ELSE CreateTable]

HasKey(table, key) == \E x \in BagToSet(table.rows) : x.datetime = key

\* Plain INSERT into a table that enforces no key: every row is stored.
InsertAlways(table, r) == [table EXCEPT !.rows = @ (+) SetToBag({r})]

\* INSERT OR REPLACE: what the statement would do with REPLACE for IGNORE.
InsertOrReplace(table, r) ==
    [table EXCEPT !.rows =
        LET kept == {x \in BagToSet(@) : x.datetime # r.datetime}
        IN  [x \in kept \cup {r} |-> IF x = r THEN 1 ELSE @[x]]]

\* INSERT OR IGNORE of one row: a row whose key the table holds is dropped.
InsertOrIgnore(table, r) ==
    IF table.pk /\ HasKey(table, r.datetime)
    THEN table
    ELSE [table EXCEPT !.rows = @ (+) SetToBag({r})]

\* cursor.executemany: the statement once per row, in the rows' order.
RECURSIVE executemany(_, _)
executemany(table, rows) ==
    IF rows = <<>> THEN table
    ELSE executemany(InsertOrIgnore(table, Head(rows)), Tail(rows))

\* to_records: one tuple per DataFrame row.  The datetime reaches the TEXT
\* column as text: data_fetch_v1.py converts it itself (astype(str)),
\* data_fetch.py leaves the conversion to the driver's parameter binding.
to_records(frame) ==
    [k \in 1..Len(frame) |->
        [datetime |-> ToText(frame[k].datetime), open |-> frame[k].open,
         close |-> frame[k].close, volume |-> frame[k].volume]]

\* insert_data, when the statement and the commit succeed.
insert_data(table, frame) == executemany(table, to_records(frame))

\* len(df) in main, len(rows) in data_fetch_v1.insert_data: the figure of the
\* "Inserted N rows" lines.
InsertedFigure(frame) == Len(frame)

\* The log lines of one successful insert_data call and of main after it.
InsertLines(v, frame) ==
    (IF v = "data_fetch_v1"
     THEN <<[level |-> "info", msg |-> "Inserted (duplicates ignored)",
             n |-> InsertedFigure(frame)]>>
     ELSE <<>>)

MainInsertedLine(frame) ==
    [level |-> "info", msg |-> "Inserted", n |-> InsertedFigure(frame)]

\* ORDER BY datetime DESC: the greatest key of a non-empty set of rows.
Newest(rowset) ==
    CHOOSE r \in rowset : \A x \in rowset : ~TextLess(r.datetime, x.datetime)

\* ORDER BY datetime ASC LIMIT k: the oldest rows first.
Oldest(rowset) ==
    CHOOSE r \in rowset : \A x \in rowset : ~TextLess(x.datetime, r.datetime)

RECURSIVE select_oldest(_, _)
select_oldest(rows, k) ==
    IF k = 0 \/ rows = EmptyBag THEN <<>>
    ELSE LET r == Oldest(BagToSet(rows))
         IN  <<r>> \o select_oldest(rows (-) SetToBag({r}), k - 1)

\* SELECT ... ORDER BY datetime DESC LIMIT k.
RECURSIVE select_recent(_, _)
select_recent(rows, k) ==
    IF k = 0 \/ rows = EmptyBag THEN <<>>
    ELSE LET r == Newest(BagToSet(rows))
         IN  <<r>> \o select_recent(rows (-) SetToBag({r}), k - 1)

\* --------------------------------------------------------------- the fetch
\* now.replace(minute=(now.minute // 15) * 15, second=0, microsecond=0).
WindowEnd(clock) == (clock \div 60) * 60 + ((clock % 60) \div BUCKET) * BUCKET

\* end_time - timedelta(minutes=15).
WindowStart(clock) == WindowEnd(clock) - BUCKET

InWindow(frame, clock) ==
    LET Keep(r) == r.datetime >= WindowStart(clock) /\ r.datetime < WindowEnd(clock)
    IN  SelectSeq(frame, Keep)

\* Whether the body of fetch_stock_data raises for this provider result:
\* data_fetch_v1.py evaluates the name timedelta, which no import binds, as
\* soon as the result is not empty.
FetchRaisesNameError(v, result) ==
    v = "data_fetch_v1" /\ result # <<>> /\ "timedelta" \notin Imported

\* fetch_stock_data for a provider result: None for an empty result and for
\* an exception caught by its except clause, else the renamed rows (those of
\* the window, in data_fetch_v1.py).
fetch_stock_data(v, result, clock) ==
    LET frame == [k \in 1..Len(result) |-> Normalize(result[k])]
    IN  IF result = <<>> THEN None
        ELSE IF FetchRaisesNameError(v, result) THEN None
        ELSE IF v = "data_fetch_v1" THEN DataFrame(InWindow(frame, clock))
        ELSE DataFrame(frame)

NoDataReturnedLine == [level |-> "warning", msg |-> "No data returned", n |-> 0]
FetchErrorLine == [level |-> "error", msg |-> "Error fetching data", n |-> 0]
NoDataLine == [level |-> "warning", msg |-> "No data to insert", n |-> 0]
ReadmeErrorLine == [level |-> "error", msg |-> "Error updating README", n |-> 0]

\* The log lines fetch_stock_data writes for a provider result.
FetchLines(v, result) ==
    IF result = <<>> THEN <<NoDataReturnedLine>>
    ELSE IF FetchRaisesNameError(v, result) THEN <<FetchErrorLine>>
    ELSE <<>>

\* ------------------------------------------------------------ the snapshot
\* SELECT * (data_fetch.py) or SELECT datetime, close, volume (v1).
RenderRow(v, r) ==
    IF v = "data_fetch_v1"
    THEN [datetime |-> r.datetime, close |-> r.close, volume |-> r.volume]
    ELSE r

Header(clock) == [kind |-> "header", updated |-> clock]

\* What one iteration of update_readme's loop writes for a stock whose query
\* succeeds: nothing for an empty result, else one section.
SectionOf(v, s, table) ==
    LET recent == select_recent(table.rows, LIMIT)
    IN  IF recent = <<>> THEN <<>>
        ELSE <<[kind |-> "section", stock |-> s,
                rows |-> [k \in 1..Len(recent) |-> RenderRow(v, recent[k])]]>>

\* The query of a stock raises when its table is missing ("no such table").
RenderRaises(d, s) == s \notin DOMAIN d

\* What one iteration of update_readme's loop writes and logs.
RenderWrites(v, d, s) == IF RenderRaises(d, s) THEN <<>> ELSE SectionOf(v, s, d[s])

RenderLogs(d, s) == IF RenderRaises(d, s) THEN <<ReadmeErrorLine>> ELSE <<>>

\* Everything update_readme writes after the header, from stock k on.
RECURSIVE Sections(_, _, _)
Sections(v, d, k) ==
    IF k > N THEN <<>>
    ELSE RenderWrites(v, d, STOCKS[k]) \o Sections(v, d, k + 1)

RECURSIVE SectionLogs(_, _)
SectionLogs(d, k) ==
    IF k > N THEN <<>>
    ELSE RenderLogs(d, STOCKS[k]) \o SectionLogs(d, k + 1)

\* The file update_readme leaves behind when it returns.
Report(v, d, clock) == <<Header(clock)>> \o Sections(v, d, 1)

\* ------------------------------------------------------------------- state
NoTables == [s \in {} |-> CreateTable]
Pending == [s \in Stocks |-> "pending"]

\* Before the first run: no database file, no README, an empty log.
Init ==
    /\ variant \in Variants
    /\ pc = "idle"
    /\ cycle = 0
    /\ i = 1
    /\ downloaded = <<>>
    /\ df = None
    /\ again = FALSE
    /\ now \in Clock
    /\ db = NoTables
    /\ readme = NoFile
    /\ wbuf = <<>>
    /\ log = <<>>
    /\ outcome = Pending
    /\ readmeCalls = 0
    /\ published = NoFile

stock == STOCKS[i]

\* ------------------------------------------------------------------ main()
\* The scheduler starts main(): "Starting data fetch cycle...", init_db(),
\* and the loop over STOCKS begins.  The clock has not gone backwards.
Start ==
    /\ pc \in {"idle", "done", "crashed"}
    /\ cycle < MaxCycles
    /\ cycle' = cycle + 1
    /\ now' \in {n \in Clock : n >= now}
    /\ db' = init_db(db)
    /\ i' = 1
    /\ df' = None
    /\ wbuf' = <<>>
    /\ log' = <<>>
    /\ outcome' = Pending
    /\ readmeCalls' = 0
    /\ pc' = "fetch"
    /\ UNCHANGED <<variant, downloaded, again, readme, published>>

\* df = fetch_stock_data(stock) where yf.download raises: the except clause
\* logs the error and returns None, and main logs "No data to insert".
FetchProviderRaises ==
    /\ pc = "fetch"
    /\ i <= N
    /\ downloaded' = <<>>
    /\ df' = None
    /\ log' = <<FetchErrorLine, NoDataLine>>
    /\ outcome' = [outcome EXCEPT ![stock] = "fetch_error"]
    /\ i' = i + 1
    /\ UNCHANGED <<variant, pc, cycle, again, now, db, readme, wbuf,
                   readmeCalls, published>>

\* df = fetch_stock_data(stock) where yf.download returns, and main's test
\* "df is not None and not df.empty".
FetchReturns ==
    /\ pc = "fetch"
    /\ i <= N
    /\ \E result \in Download(variant) :
          LET got == fetch_stock_data(variant, result, now)
          IN  /\ downloaded' = result
              /\ df' = got
              /\ IF got.isNone \/ got.rows = <<>>
                 THEN /\ log' = FetchLines(variant, result) \o <<NoDataLine>>
                      /\ outcome' = [outcome EXCEPT ![stock] =
                            IF FetchRaisesNameError(variant, result)
                            THEN "fetch_error" ELSE "no_data"]
                      /\ i' = i + 1
                      /\ pc' = "fetch"
                 ELSE /\ log' = FetchLines(variant, result)
                      /\ outcome' = [outcome EXCEPT ![stock] = "rows"]
                      /\ i' = i
                      /\ pc' = "insert"
    /\ UNCHANGED <<variant, cycle, again, now, db, readme, wbuf,
                   readmeCalls, published>>

\* insert_data(stock, df) succeeds; main logs "Inserted {len(df)} rows".
InsertOk ==
    /\ pc = "insert"
    /\ db' = [db EXCEPT ![stock] = insert_data(@, df.rows)]
    /\ log' = InsertLines(variant, df.rows) \o <<MainInsertedLine(df.rows)>>
    /\ outcome' = [outcome EXCEPT ![stock] = "inserted"]
    /\ i' = i + 1
    /\ pc' = "fetch"
    /\ UNCHANGED <<variant, cycle, downloaded, df, again, now, readme,
                   wbuf, readmeCalls, published>>

\* insert_data(stock, df) raises (the driver cannot bind a value, the
\* database is locked, the disk is full).  Nothing was committed, and main
\* has no handler around the call: the exception leaves main().
InsertRaises ==
    /\ pc = "insert"
    /\ pc' = "crashed"
    /\ log' = <<>>
    /\ UNCHANGED <<variant, cycle, i, downloaded, df, again, now, db,
                   readme, wbuf, outcome, readmeCalls, published>>

\* update_readme() is entered after the loop: open(README_FILE, "w")
\* truncates the file, and the two header lines are written to f.
ReadmeOpen ==
    /\ pc = "fetch"
    /\ i = N + 1
    /\ readmeCalls' = readmeCalls + 1
    /\ readme' = File(<<>>)
    /\ wbuf' = <<Header(now)>>
    /\ i' = 1
    /\ log' = <<>>
    /\ pc' = "render"
    /\ UNCHANGED <<variant, cycle, downloaded, df, again, now, db,
                   outcome, published>>

\* One iteration of update_readme's loop: the query, and the section written
\* to f (or the error logged).
RenderSection ==
    /\ pc = "render"
    /\ i <= N
    /\ wbuf' = wbuf \o RenderWrites(variant, db, stock)
    /\ log' = RenderLogs(db, stock)
    /\ i' = i + 1
    /\ UNCHANGED <<variant, pc, cycle, downloaded, df, again, now, db,
                   readme, outcome, readmeCalls, published>>

\* The buffered writer hands what it holds to the file (its buffer is full).
Flush ==
    /\ pc = "render"
    /\ wbuf # <<>>
    /\ readme' = File(readme.text \o wbuf)
    /\ wbuf' = <<>>
    /\ UNCHANGED <<variant, pc, cycle, i, downloaded, df, again, now,
                   db, log, outcome, readmeCalls, published>>

\* The with block ends: f is flushed and closed; update_readme returns and
\* main logs "Cycle complete. README updated.".
ReadmeClose ==
    /\ pc = "render"
    /\ i = N + 1
    /\ readme' = File(readme.text \o wbuf)
    /\ wbuf' = <<>>
    /\ published' = readme'
    /\ log' = <<[level |-> "info", msg |-> "Cycle complete", n |-> 0]>>
    /\ pc' = "done"
    /\ UNCHANGED <<variant, cycle, i, downloaded, df, again, now, db,
                   outcome, readmeCalls>>

Next ==
    \/ Start
    \/ FetchProviderRaises
    \/ FetchReturns
    \/ InsertOk
    \/ InsertRaises
    \/ ReadmeOpen
    \/ RenderSection
    \/ Flush
    \/ ReadmeClose

Spec == Init /\ [][Next]_vars

\* ------------------------------------------------------ the module's callers
\* The stock a direct caller passes: the first of the basket.
CallerIndex == {1}

\* init_db() called directly.
CallInitDb ==
    /\ pc \in {"idle", "init_db", "insert_data", "insert_data_raised", "update_readme"}
    /\ db' = init_db(db)
    /\ df' = None
    /\ again' = FALSE
    /\ log' = <<>>
    /\ pc' = "init_db"
    /\ UNCHANGED <<variant, cycle, i, downloaded, now, readme, wbuf, outcome,
                   readmeCalls, published>>

\* insert_data(stock, df) called directly on an existing table, succeeding.
CallInsertData ==
    /\ pc \in {"idle", "init_db", "insert_data", "insert_data_raised", "update_readme"}
    /\ \E k \in CallerIndex, frame \in Frames :
          /\ STOCKS[k] \in DOMAIN db
          /\ i' = k
          /\ df' = DataFrame(frame)
          /\ again' = (pc = "insert_data" /\ i = k /\ df = DataFrame(frame))
          /\ db' = [db EXCEPT ![STOCKS[k]] = insert_data(@, frame)]
          /\ log' = InsertLines(variant, frame)
    /\ pc' = "insert_data"
    /\ UNCHANGED <<variant, cycle, downloaded, now, readme, wbuf, outcome,
                   readmeCalls, published>>

\* insert_data(stock, df) raising: the table is missing, or the write fails.
\* Nothing is committed, and the caller is left without a frame.
CallInsertDataRaises ==
    /\ pc \in {"idle", "init_db", "insert_data", "insert_data_raised", "update_readme"}
    /\ df' = None
    /\ again' = FALSE
    /\ log' = <<>>
    /\ pc' = "insert_data_raised"
    /\ UNCHANGED <<variant, cycle, i, downloaded, now, db, readme, wbuf,
                   outcome, readmeCalls, published>>

\* update_readme() called directly, from open to close.  readmeCalls counts
\* the calls main() makes in a cycle, so a direct call leaves it alone.
CallUpdateReadme ==
    /\ pc \in {"idle", "init_db", "insert_data", "insert_data_raised", "update_readme"}
    /\ readme' = File(Report(variant, db, now))
    /\ published' = readme'
    /\ df' = None
    /\ again' = FALSE
    /\ log' = SectionLogs(db, 1)
    /\ pc' = "update_readme"
    /\ UNCHANGED <<variant, cycle, i, downloaded, now, db, wbuf, outcome,
                   readmeCalls>>

NextStore ==
    \/ CallInitDb
    \/ CallInsertData
    \/ CallInsertDataRaises
    \/ CallUpdateReadme

SpecStore == Init /\ [][NextStore]_vars

\* ================================================================== claims
Keys(table) == {r.datetime : r \in BagToSet(table.rows)}

FrameKeys(frame) == {ToText(frame[k].datetime) : k \in 1..Len(frame)}

Count(table) == BagCardinality(table.rows)

\* "HH:MM" read back as minutes of the day.
FromText(t) == (t[1] * 10 + t[2]) * 60 + t[4] * 10 + t[5]

\* The step is a successful insert_data call made directly.
InsertCall == pc' = "insert_data"

\* C1 (idempotent upsert): a call insert_data(stock, R) that repeats the call
\* before it, same stock and same rows R (R may repeat a timestamp), leaves
\* every series exactly as the first call left it.
C1_IdempotentUpsert ==
    [][(InsertCall /\ pc = "insert_data" /\ i' = i /\ df' = df) => db' = db]_vars

\* C1 witness: insert_data was called twice in a row with the same stock and
\* the same two rows, both of one timestamp, with different prices.
C1_Witness ==
    /\ pc = "insert_data"
    /\ again
    /\ Len(df.rows) = 2
    /\ df.rows[1].datetime = df.rows[2].datetime
    /\ df.rows[1].close # df.rows[2].close
    /\ Count(db[stock]) = 1

\* C2 (key uniqueness): in every state, no series holds two records of the
\* same timestamp (nor one record twice).
C2_KeyUniqueness ==
    \A s \in DOMAIN db :
        /\ \A r \in BagToSet(db[s].rows) : CopiesIn(r, db[s].rows) = 1
        /\ \A r1, r2 \in BagToSet(db[s].rows) : r1.datetime = r2.datetime => r1 = r2

\* C2 witness: rows of a timestamp the series already held, at another
\* price, were offered to it, and the series holds two records.
C2_Witness ==
    /\ pc = "insert_data"
    /\ Count(db[stock]) = 2
    /\ \E k \in 1..Len(df.rows) :
          \E r \in BagToSet(db[stock].rows) :
              /\ r.datetime = ToText(df.rows[k].datetime)
              /\ r.close # df.rows[k].close

\* C3 (first write wins): no step changes or removes a stored record, and an
\* insert_data call adds to its series exactly one record for each timestamp
\* of its rows that the series did not hold, and nothing to any other series.
C3_FirstWriteWins ==
    [][/\ \A s \in DOMAIN db :
            \A r \in BagToSet(db[s].rows) :
                s \in DOMAIN db' /\ CopiesIn(r, db'[s].rows) = CopiesIn(r, db[s].rows)
       /\ InsertCall =>
            /\ Keys(db'[stock']) = Keys(db[stock']) \cup FrameKeys(df'.rows)
            /\ Count(db'[stock']) =
                   Count(db[stock']) + Cardinality(FrameKeys(df'.rows) \ Keys(db[stock']))
            /\ \A s \in DOMAIN db \ {stock'} : db'[s] = db[s]]_vars

\* C3 witness: 09:59 and 10:00 were ingested, then 10:00 and 10:01 with
\* another price for 10:00; the series holds the three timestamps and 10:00
\* is not at the later price.
C3_Witness ==
    /\ pc = "insert_data"
    /\ Keys(db[stock]) = {ToText(599), ToText(600), ToText(601)}
    /\ FrameKeys(df.rows) = {ToText(600), ToText(601)}
    /\ \E k \in 1..Len(df.rows) :
          /\ df.rows[k].datetime = 600
          /\ \A r \in BagToSet(db[stock].rows) :
                r.datetime = ToText(600) => r.close # df.rows[k].close

\* The sections of a file's text that belong to stock s.
SectionsFor(text, s) ==
    {k \in 1..Len(text) : text[k].kind = "section" /\ text[k].stock = s}

Min(a, b) == IF a < b THEN a ELSE b

\* C8 (snapshot ordering): when update_readme has returned, a stock whose
\* series holds n >= 1 records has exactly one section; it lists min(2, n)
\* records of the series, newest first, and every record it leaves out is
\* older than those it lists.  A stock with no record has no section.
C8_SnapshotOrdering ==
    pc = "update_readme" =>
        /\ readme.exists
        /\ \A s \in Stocks :
              LET secs == SectionsFor(readme.text, s)
                  n == IF s \in DOMAIN db THEN Count(db[s]) ELSE 0
              IN  IF n = 0 THEN secs = {}
                  ELSE /\ Cardinality(secs) = 1
                       /\ \A k \in secs :
                             LET listed == readme.text[k].rows
                                 shown == {listed[j].datetime : j \in 1..Len(listed)}
                             IN  /\ Len(listed) = Min(LIMIT, n)
                                 /\ \A j \in 1..Len(listed) :
                                       \E r \in BagToSet(db[s].rows) :
                                           /\ r.datetime = listed[j].datetime
                                           /\ r.close = listed[j].close
                                           /\ r.volume = listed[j].volume
                                 /\ \A j \in 1..(Len(listed) - 1) :
                                       FromText(listed[j].datetime)
                                           > FromText(listed[j + 1].datetime)
                                 /\ \A r \in BagToSet(db[s].rows) :
                                       r.datetime \notin shown =>
                                           \A j \in 1..Len(listed) :
                                               FromText(r.datetime)
                                                   < FromText(listed[j].datetime)

\* C8 witness: a series holds 09:59, 10:00 and 10:01, its section lists 10:01
\* then 10:00, and another stock with an empty series has no section.
C8_Witness ==
    /\ pc = "update_readme"
    /\ \E s \in DOMAIN db :
          /\ Keys(db[s]) = {ToText(599), ToText(600), ToText(601)}
          /\ \E k \in SectionsFor(readme.text, s) :
                /\ Len(readme.text[k].rows) = 2
                /\ readme.text[k].rows[1].datetime = ToText(601)
                /\ readme.text[k].rows[2].datetime = ToText(600)
    /\ \E s \in DOMAIN db : Count(db[s]) = 0 /\ SectionsFor(readme.text, s) = {}

\* ---------------------------------------------------------- claims on main()
Ended == pc \in {"done", "crashed"}

\* C4 (fetch-failure isolation), data_fetch.py: in the first cycle, from empty
\* series, when the fetch of B failed and those of A and C returned rows, main
\* ends by returning, the series of A and C hold rows, update_readme ran, and
\* the snapshot has a section for A and for C and none for B.
C4_FetchFailureIsolation ==
    (/\ variant = "data_fetch"
     /\ cycle = 1
     /\ Ended
     /\ outcome["B"] = "fetch_error"
     /\ outcome["A"] \in {"rows", "inserted"}
     /\ outcome["C"] \in {"rows", "inserted"})
    => /\ pc = "done"
       /\ Count(db["A"]) >= 1
       /\ Count(db["C"]) >= 1
       /\ readmeCalls = 1
       /\ {s \in Stocks : SectionsFor(readme.text, s) # {}} = {"A", "C"}

\* C5 (upsert-failure isolation): a failure of insert_data never leaves
\* main(): main ends only by returning, with every stock of STOCKS fetched
\* and update_readme invoked.
C5_UpsertFailureIsolation ==
    Ended => /\ pc = "done"
             /\ \A s \in Stocks : outcome[s] # "pending"
             /\ readmeCalls = 1

\* C6 (aligned-bucket window), data_fetch_v1.py: after a fetch whose provider
\* result is not empty, df holds exactly the provider rows, in IST, whose
\* timestamp t has end - 15 <= t < end, end being now with its minute floored
\* to a multiple of 15.  (None is counted as no rows.)
C6_AlignedBucketWindow ==
    (variant = "data_fetch_v1" /\ downloaded # <<>>) =>
        LET end == now - ((now % 60) % 15)
            InClaimedWindow(r) ==
                tz_convert(r.Datetime) >= end - 15 /\ tz_convert(r.Datetime) < end
            wanted == SelectSeq(downloaded, InClaimedWindow)
        IN  /\ Len(df.rows) = Len(wanted)
            /\ \A k \in 1..Len(wanted) : df.rows[k] = Normalize(wanted[k])

\* C7 (true inserted count): every "Inserted N rows" line a successful
\* insert_data call of main leads to carries the number of rows the call
\* added to the series.
C7_TrueInsertedCount ==
    [][(pc = "insert" /\ pc' = "fetch") =>
          \A k \in 1..Len(log') :
              log'[k].n = Count(db'[stock]) - Count(db[stock])]_vars

\* C9 (atomic snapshot replacement): once a report has been written in full,
\* the file on disk is at every moment a report written in full: the last one
\* that update_readme completed.
C9_AtomicSnapshot == published.exists => readme = published

\* C10 (snapshot barrier): a cycle that has ended invoked update_readme
\* exactly once, and update_readme is never invoked before every stock of
\* STOCKS has been dealt with, nor twice in a cycle.
C10_SnapshotBarrier ==
    /\ Ended => readmeCalls = 1
    /\ readmeCalls <= 1
    /\ readmeCalls = 1 => \A s \in Stocks : outcome[s] \in {"inserted", "no_data", "fetch_error"}

====
